---- MODULE Spec2Model ----
(***************************************************************************)
(* Model of the CloudTrail SQL agent's tool layer (text_to_sql_agent.py):   *)
(* the tools get_table_schema, get_query_details and run_athena_query       *)
(* running against the remote query service and catalog, the event stream   *)
(* reducers process_agent_stream and query_agent, the entry points main and *)
(* interactive_mode, and of the chat UI (streamlit_cloudtrail_chatbot.py):  *)
(* its script, message log, sidebar configuration and context builder.      *)
(*                                                                         *)
(* Python values are modelled as follows.                                   *)
(*  - A dict is a function from keys (strings) to values; d[k] on a missing *)
(*    key raises KeyError, which the actions test with Has(d, k).           *)
(*  - A text built by an f-string is the sequence of its pieces: T(s) is a  *)
(*    literal piece, FStr(s) a formatted string, FInt(n) a formatted        *)
(*    integer and FList(l) a formatted list.  "The text contains x" is      *)
(*    membership of the piece among the pieces of the text.                 *)
(*  - An exception is the name of its class.                                *)
(***************************************************************************)
EXTENDS Integers, Sequences, FiniteSets, TLC

(* ------------------------------ bounds --------------------------------- *)
\* Largest number of data rows a result set holds.
MaxRows == 52
\* Largest number of columns of a result set.
MaxCols == 2
\* Largest number of tool calls in one behaviour.
MaxCalls == 2

(* --------------------------- program constants ------------------------- *)
\* text_to_sql_agent.py:119  if total_rows > 50
AdmissionThreshold == 50

(* ------------------------------ helpers -------------------------------- *)
EmptyDict == [k \in {} |-> TRUE]
Has(d, k) == k \in DOMAIN d
Range(s) == {s[i] : i \in 1..Len(s)}

T(s) == [lit |-> s]
FStr(s) == [str |-> s]
FInt(n) == [int |-> n]
FList(l) == [list |-> l]
Contains(text, piece) == piece \in Range(text)

(* ------------------------- remote query service ------------------------ *)
\* The execution id the service assigns to its n-th execution.
ExecId(n) == "q" \o ToString(n)
ExecIds == {ExecId(n) : n \in 1..MaxCalls}
\* An id no execution has (an id the reasoning engine made up).
UnknownId == "q0"
\* The index of the execution with id q, 0 when there is none.
ExecIndex(q, n) == IF \E i \in 1..n : ExecId(i) = q
                   THEN CHOOSE i \in 1..n : ExecId(i) = q
                   ELSE 0

Reasons == {"table not found", "syntax error"}
AthenaErrors == {[ErrorCategory |-> 2, ErrorType |-> 1003, ErrorMessage |-> "TABLE_NOT_FOUND"],
                 [ErrorCategory |-> 2]}

StatusQueued == [State |-> "QUEUED"]
StatusRunning == [State |-> "RUNNING"]
StatusSucceeded == [State |-> "SUCCEEDED"]
FailedStatuses ==
    {[State |-> "FAILED"]}
    \cup {[State |-> "FAILED", StateChangeReason |-> r] : r \in Reasons}
    \cup {[State |-> "FAILED", AthenaError |-> e] : e \in AthenaErrors}
    \cup {[State |-> "FAILED", StateChangeReason |-> r, AthenaError |-> e] :
              r \in Reasons, e \in AthenaErrors}
CancelledStatuses ==
    {[State |-> "CANCELLED"], [State |-> "CANCELLED", StateChangeReason |-> "cancelled by user"]}
TerminalStatuses == {StatusSucceeded} \cup FailedStatuses \cup CancelledStatuses

\* The result set of a succeeded execution: a header row and n data rows of
\* w cells, a cell being a dict with VarCharValue or, for a null, without it.
Cell(i, j) == IF (i + j) % 3 = 0 THEN EmptyDict
              ELSE [VarCharValue |-> IF i % 2 = 0 THEN "x" ELSE "y"]
HeaderRow(w) == [Data |-> [j \in 1..w |-> [VarCharValue |-> "col"]]]
DataRow(i, w) == [Data |-> [j \in 1..w |-> Cell(i, j)]]
ResultRows(n, w) == <<HeaderRow(w)>> \o [i \in 1..n |-> DataRow(i, w)]

VARIABLES
    AWS_REGION,    \* the region the clients are created with, "" when none is configured
    exec,          \* remote query service: exec[n] is the Status of execution ExecId(n)
    resultSet,     \* remote query service: resultSet[n] = <<rows, columns>> of its result set
    catalog,       \* remote catalog service: the columns of the table
    pc,            \* position of the tool call in progress
    tool,          \* the tool called
    arg,           \* its argument (sql or query_id)
    query_id,      \* run_athena_query: the execution id of the submit response
    status,        \* run_athena_query: the state of the last poll
    toolResults,   \* the outcomes of the finished tool calls, in order
    reducer,       \* the reducer consuming the stream: query_agent or process_agent_stream
    show_reasoning,\* process_agent_stream's flag
    consumed,      \* the events the reasoning engine has emitted so far, in order
    response_parts,\* query_agent: the list it accumulates
    printed,       \* process_agent_stream: the texts it has printed, in order
    spc,           \* position of the reducer: idle, streaming, returned, raised
    sret,          \* query_agent: the string returned
    sexc,          \* the exception that left the reducer, "" when none
    logging,       \* whether the remote requests are recorded
    requests,      \* the remote requests of the last run_athena_query call, in order
    abandoned,     \* the caller has abandoned the turn whose tool call is in progress
    pollsAfter,    \* the polls made since the caller abandoned the turn
    entry,         \* the entry point running the turn
    epc,           \* position of the entry point: idle, turn, prompt, done, exited, crashed
    turns,         \* the turns started so far
    answer,        \* what the entry point presented as the answer of the turn
    uncaught,      \* the exception that left the entry point, "" when none
    environ,       \* os.environ: the process-wide configuration
    messages,      \* st.session_state.messages of each session
    agent,         \* st.session_state.agent of each session
    widgets,       \* the values each session's user has set in the sidebar widgets
    rpc,           \* position of each session's script run
    trigger,       \* the interaction each session's script run handles
    full_query     \* the chat input handler's full_query

streamVars == <<reducer, show_reasoning, consumed, response_parts, printed, spc, sret, sexc>>
toolVars == <<AWS_REGION, exec, resultSet, catalog, pc, tool, arg, query_id, status, toolResults>>
callVars == <<logging, requests, abandoned, pollsAfter>>
turnVars == <<entry, epc, turns, answer, uncaught>>
uiVars == <<environ, messages, agent, widgets, rpc, trigger, full_query>>

(* --------------------------- remote responses -------------------------- *)
\* What a remote call can do: raise (a network or service error), or answer
\* with a response dict, which may lack the fields the caller expects.
\* The fault field names what the environment did; no tool reads it.
Raise(e) == [raise |-> e, fault |-> "service"]
Ok(d) == [ok |-> d, fault |-> "none"]
Bad(d) == [ok |-> d, fault |-> "bad_response"]

\* start_query_execution: answers with the id of the execution it creates.
StartQueryExecutionResponses(n) ==
    {Raise("EndpointConnectionError"),
     Ok([QueryExecutionId |-> ExecId(n + 1)]),
     Bad(EmptyDict)}

\* get_query_execution(q): the Status of execution q as the service holds it.
GetQueryExecutionResponses(q, ex) ==
    {Raise("EndpointConnectionError")}
    \cup (IF ExecIndex(q, Len(ex)) = 0
          THEN {Raise("InvalidRequestException")}
          ELSE {Ok([QueryExecution |-> [Status |-> ex[ExecIndex(q, Len(ex))]]]),
                Bad([QueryExecution |-> [Status |-> EmptyDict]]),
                Bad(EmptyDict)})

\* get_query_results: ordered rows, the first being the header; rs = <<n, w>>
\* are the numbers of data rows and of columns of the execution's result set.
GetQueryResultsResponses(rs) ==
    {Raise("EndpointConnectionError"),
     Ok([ResultSet |-> [Rows |-> ResultRows(rs[1], rs[2])]]),
     Bad([ResultSet |-> [Rows |-> Append(ResultRows(rs[1], rs[2]), EmptyDict)]]),
     Bad(EmptyDict)}

\* glue get_table: the columns of the table.
Columns == <<[Name |-> "year", Type |-> "int"], [Name |-> "eventname", Type |-> "string"]>>
Catalogs == {SubSeq(Columns, 1, n) : n \in 0..Len(Columns)} \cup {<<Columns[2], Columns[1]>>}
GetTableResponses(cat) ==
    {Raise("EntityNotFoundException"),
     Ok([Table |-> [StorageDescriptor |-> [Columns |-> cat]]]),
     Bad([Table |-> [StorageDescriptor |-> [Columns |-> Append(cat, [Name |-> "month"])]]]),
     Bad([Table |-> EmptyDict]),
     Bad(EmptyDict)}

(* ------------------------------ the tools ------------------------------ *)
\* The outcome of a call: a returned text, or an exception leaving the function.
Returned(text) == [returned |-> TRUE, text |-> text, exc |-> ""]
Raised(e) == [returned |-> FALSE, text |-> <<>>, exc |-> e]

RECURSIVE Join(_, _)
\* sep.join(parts), the parts being texts.
Join(parts, sep) ==
    IF parts = <<>> THEN <<>>
    ELSE IF Len(parts) = 1 THEN parts[1]
    ELSE parts[1] \o sep \o Join(Tail(parts), sep)

\* get_table_schema, the body under try: lines 44-56.
SchemaInfo(columns) == [i \in 1..Len(columns) |->
                            <<FStr(columns[i].Name), T(": "), FStr(columns[i].Type)>>]
SchemaResult(columns) == <<T("Available columns: ")>> \o Join(SchemaInfo(columns), <<T(", ")>>)
SchemaError(e) == <<T("Failed to get table schema: "), FStr(e)>>
\* get_table_schema with "except KeyError" in place of "except Exception".
get_table_schema_CatchesKeyErrorOnly(clientOk, r) ==
    IF ~clientOk THEN Raised("NoRegionError")
    ELSE IF Has(r, "raise") THEN Raised(r.raise)
    ELSE IF \/ ~Has(r.ok, "Table")
            \/ ~Has(r.ok.Table, "StorageDescriptor")
            \/ ~Has(r.ok.Table.StorageDescriptor, "Columns")
            \/ \E i \in 1..Len(r.ok.Table.StorageDescriptor.Columns) :
                   \/ ~Has(r.ok.Table.StorageDescriptor.Columns[i], "Name")
                   \/ ~Has(r.ok.Table.StorageDescriptor.Columns[i], "Type")
         THEN Returned(SchemaError("KeyError"))
    ELSE Returned(SchemaResult(r.ok.Table.StorageDescriptor.Columns))
get_table_schema(clientOk, r) ==
    IF ~clientOk THEN Raised("NoRegionError")
    ELSE IF Has(r, "raise") THEN Returned(SchemaError(r.raise))
    ELSE IF \/ ~Has(r.ok, "Table")
            \/ ~Has(r.ok.Table, "StorageDescriptor")
            \/ ~Has(r.ok.Table.StorageDescriptor, "Columns")
            \/ \E i \in 1..Len(r.ok.Table.StorageDescriptor.Columns) :
                   \/ ~Has(r.ok.Table.StorageDescriptor.Columns[i], "Name")
                   \/ ~Has(r.ok.Table.StorageDescriptor.Columns[i], "Type")
         THEN Returned(SchemaError("KeyError"))
    ELSE Returned(SchemaResult(r.ok.Table.StorageDescriptor.Columns))

\* get_query_details: lines 66-86, and the same text without lines 75-82.
DetailsTextNoReason(q, status_info) ==
    <<T("Query ID: "), FStr(q), T("\n"), T("Status: "), FStr(status_info.State), T("\n")>>
DetailsText(q, status_info) ==
    <<T("Query ID: "), FStr(q), T("\n"), T("Status: "), FStr(status_info.State), T("\n")>>
    \o (IF Has(status_info, "StateChangeReason")
        THEN <<T("Reason: "), FStr(status_info.StateChangeReason), T("\n")>>
        ELSE <<>>)
    \o (IF Has(status_info, "AthenaError")
        THEN <<T("Error Category: "),
               IF Has(status_info.AthenaError, "ErrorCategory")
               THEN FInt(status_info.AthenaError.ErrorCategory) ELSE FStr("Unknown"),
               T("\n"), T("Error Type: "),
               IF Has(status_info.AthenaError, "ErrorType")
               THEN FInt(status_info.AthenaError.ErrorType) ELSE FStr("Unknown"),
               T("\n"), T("Error Message: "),
               IF Has(status_info.AthenaError, "ErrorMessage")
               THEN FStr(status_info.AthenaError.ErrorMessage) ELSE FStr("No message"),
               T("\n")>>
        ELSE <<>>)
DetailsError(e) == <<T("Failed to get query details: "), FStr(e)>>
get_query_details(q, clientOk, r) ==
    IF ~clientOk THEN Raised("NoRegionError")
    ELSE IF Has(r, "raise") THEN Returned(DetailsError(r.raise))
    ELSE IF \/ ~Has(r.ok, "QueryExecution")
            \/ ~Has(r.ok.QueryExecution, "Status")
            \/ ~Has(r.ok.QueryExecution.Status, "State")
         THEN Returned(DetailsError("KeyError"))
    ELSE Returned(DetailsText(q, r.ok.QueryExecution.Status))

\* run_athena_query after the loop, status SUCCEEDED: lines 112-131.
DataRows(rows) ==
    [i \in 1..(Len(rows) - 1) |->
        [j \in 1..Len(rows[i + 1].Data) |->
            IF Has(rows[i + 1].Data[j], "VarCharValue")
            THEN rows[i + 1].Data[j].VarCharValue ELSE "NULL"]]
TooLargeText(total_rows, q) ==
    <<T("Query successful. Found "), FInt(total_rows),
      T(" results. Dataset is too large for AI analysis. Please review the results manually in Athena console using Query ID: "),
      FStr(q)>>
ResultsText(total_rows, data_rows) ==
    <<T("Query successful. Results ("), FInt(total_rows), T(" rows): "), FList(data_rows)>>
NoDataText == <<T("Query successful but no data returned.")>>
\* line 119, and the same test with >= in place of >.
TooLargeOffByOne(total_rows) == total_rows >= AdmissionThreshold
TooLarge(total_rows) == total_rows > AdmissionThreshold
\* line 115, and the same test counting the header row as data.
HasDataCountsHeader(rows) == Len(rows) > 0
HasData(rows) == Len(rows) > 1
RunSucceeded(r, q) ==
    IF Has(r, "raise") THEN Raised(r.raise)
    ELSE IF ~Has(r.ok, "ResultSet") \/ ~Has(r.ok.ResultSet, "Rows") THEN Raised("KeyError")
    ELSE IF HasData(r.ok.ResultSet.Rows)
         THEN IF TooLarge(Len(r.ok.ResultSet.Rows) - 1)
              THEN Returned(TooLargeText(Len(r.ok.ResultSet.Rows) - 1, q))
              ELSE IF \E i \in 2..Len(r.ok.ResultSet.Rows) : ~Has(r.ok.ResultSet.Rows[i], "Data")
                   THEN Raised("KeyError")
                   ELSE Returned(ResultsText(Len(r.ok.ResultSet.Rows) - 1,
                                             DataRows(r.ok.ResultSet.Rows)))
         ELSE Returned(NoDataText)

\* run_athena_query after the loop, status FAILED or CANCELLED: lines 133-138,
\* and the same text with error_details left at its initial "".
RunFailedTextNoReason(st, status_info, q) ==
    <<T("Query failed with status: "), FStr(st), T(". Error: "), FStr(""),
      T(". Query ID: "), FStr(q)>>
RunFailedText(st, status_info, q) ==
    <<T("Query failed with status: "), FStr(st), T(". Error: "),
      FStr(IF Has(status_info, "StateChangeReason") THEN status_info.StateChangeReason ELSE ""),
      T(". Query ID: "), FStr(q)>>

\* The loop's exit test: line 107, and a test that also leaves the loop on RUNNING.
IsTerminalOrRunning(st) == st \in {"SUCCEEDED", "FAILED", "CANCELLED", "RUNNING"}
IsTerminal(st) == st \in {"SUCCEEDED", "FAILED", "CANCELLED"}

\* The test that selects the fetch: line 111.  The first definition also
\* fetches after CANCELLED.
SucceededOrCancelled(st) == st \in {"SUCCEEDED", "CANCELLED"}
Succeeded(st) == st = "SUCCEEDED"

(* ------------------------------- actions ------------------------------- *)
\* Largest number of polls counted after the caller has abandoned the turn.
MaxPollsAfter == 2
\* Largest number of tool calls of one behaviour while the requests are recorded.
MaxLoggedCalls == 1

\* A remote request of run_athena_query as the remote service sees it: the
\* operation, the execution id the request carried, and what the service
\* answered (the new execution's id for a submit, the State for a poll; ""
\* when the answer carried none).  Consecutive polls that carried the same
\* id and got the same answer are recorded once, and nothing is recorded
\* while logging is off.
Req(op, id, ans) == [op |-> op, id |-> id, answer |-> ans]
Record(reqs, r) ==
    IF ~logging \/ (reqs # <<>> /\ reqs[Len(reqs)] = r /\ r.op = "poll")
    THEN reqs ELSE Append(reqs, r)

Sqls == {"SELECT eventname", "SELECT *"}
RUN == "run_athena_query"
DETAILS == "get_query_details"
SCHEMA == "get_table_schema"

\* A tool is called when no call is in progress (the reasoning engine calls
\* its tools one at a time).
CanCall ==
    /\ pc \in {"idle", "done", "raised"}
    /\ Len(toolResults) < (IF logging THEN MaxLoggedCalls ELSE MaxCalls)

\* The call ends: its outcome is what the tool boundary sees.
Finish(tl, a, q, st, fault, out) ==
    /\ pc' = IF out.returned THEN "done" ELSE "raised"
    /\ tool' = tl
    /\ arg' = a
    /\ query_id' = q
    /\ status' = st
    /\ toolResults' = Append(toolResults,
                             [tool |-> tl, arg |-> a, query_id |-> q, status |-> st,
                              fault |-> fault, returned |-> out.returned,
                              text |-> out.text, exc |-> out.exc])

\* boto3.client(..., region_name=AWS_REGION) raises NoRegionError when no
\* region is configured: lines 41, 66, 92.
ClientOk == AWS_REGION # ""

\* get_table_schema() keeping the first schema it has fetched.
GetTableSchemaCached ==
    /\ CanCall
    /\ \E r \in GetTableResponses(catalog) :
         LET fetched == {k \in 1..Len(toolResults) :
                            /\ toolResults[k].tool = SCHEMA
                            /\ toolResults[k].returned
                            /\ toolResults[k].fault = "none"}
         IN  IF fetched # {} /\ ClientOk
             THEN Finish(SCHEMA, "", "", "", r.fault,
                         Returned(toolResults[CHOOSE k \in fetched : TRUE].text))
             ELSE Finish(SCHEMA, "", "", "", IF ClientOk THEN r.fault ELSE "client",
                         get_table_schema(ClientOk, r))
    /\ UNCHANGED <<AWS_REGION, exec, resultSet, catalog>>
    /\ UNCHANGED callVars
    /\ UNCHANGED <<streamVars, turnVars, uiVars>>

\* get_table_schema(): lines 38-60.
GetTableSchema ==
    /\ CanCall
    /\ \E r \in GetTableResponses(catalog) :
           Finish(SCHEMA, "", "", "", IF ClientOk THEN r.fault ELSE "client",
                  get_table_schema(ClientOk, r))
    /\ UNCHANGED <<AWS_REGION, exec, resultSet, catalog>>
    /\ UNCHANGED callVars
    /\ UNCHANGED <<streamVars, turnVars, uiVars>>

\* get_query_details(query_id): lines 63-86.
GetQueryDetails ==
    /\ CanCall
    /\ \E q \in ExecIds \cup {UnknownId} :
         \E r \in GetQueryExecutionResponses(q, exec) :
           Finish(DETAILS, q, "", "", IF ClientOk THEN r.fault ELSE "client",
                  get_query_details(q, ClientOk, r))
    /\ UNCHANGED <<AWS_REGION, exec, resultSet, catalog>>
    /\ UNCHANGED callVars
    /\ UNCHANGED <<streamVars, turnVars, uiVars>>

\* run_athena_query(sql) up to the loop: lines 89-101.
RunSubmit ==
    /\ CanCall
    /\ \E sql \in Sqls, r \in StartQueryExecutionResponses(Len(exec)) :
         IF ~ClientOk
         THEN /\ Finish(RUN, sql, "", "", "client", Raised("NoRegionError"))
              /\ requests' = <<>>
              /\ UNCHANGED <<exec, resultSet>>
         ELSE IF Has(r, "raise")
         THEN /\ Finish(RUN, sql, "", "", r.fault, Raised(r.raise))
              /\ requests' = Record(<<>>, Req("submit", "", ""))
              /\ UNCHANGED <<exec, resultSet>>
         ELSE /\ exec' = Append(exec, StatusQueued)
              /\ resultSet' = Append(resultSet, <<>>)
              /\ requests' = Record(<<>>, Req("submit", "",
                                                IF Has(r.ok, "QueryExecutionId")
                                                THEN r.ok.QueryExecutionId ELSE ""))
              /\ IF ~Has(r.ok, "QueryExecutionId")
                 THEN Finish(RUN, sql, "", "", r.fault, Raised("KeyError"))
                 ELSE /\ pc' = "poll"
                      /\ tool' = RUN
                      /\ arg' = sql
                      /\ query_id' = r.ok.QueryExecutionId
                      /\ status' = ""
                      /\ UNCHANGED toolResults
    /\ abandoned' = FALSE
    /\ pollsAfter' = 0
    /\ UNCHANGED <<logging, AWS_REGION, catalog>>
    /\ UNCHANGED <<streamVars, turnVars, uiVars>>

\* One iteration of the loop, and for FAILED and CANCELLED the return: lines 104-111, 132-138.
RunPoll ==
    /\ pc = "poll"
    /\ \E r \in GetQueryExecutionResponses(query_id, exec) :
         IF Has(r, "raise")
         THEN /\ Finish(RUN, arg, query_id, status, r.fault, Raised(r.raise))
              /\ requests' = Record(requests, Req("poll", query_id, ""))
         ELSE IF \/ ~Has(r.ok, "QueryExecution")
                 \/ ~Has(r.ok.QueryExecution, "Status")
                 \/ ~Has(r.ok.QueryExecution.Status, "State")
         THEN /\ Finish(RUN, arg, query_id, status, r.fault, Raised("KeyError"))
              /\ requests' = Record(requests, Req("poll", query_id, ""))
         ELSE /\ requests' = Record(requests, Req("poll", query_id,
                                                  r.ok.QueryExecution.Status.State))
              /\ IF ~IsTerminal(r.ok.QueryExecution.Status.State)
                 THEN /\ pc' = "poll"
                      /\ status' = r.ok.QueryExecution.Status.State
                      /\ UNCHANGED <<tool, arg, query_id, toolResults>>
                 ELSE IF Succeeded(r.ok.QueryExecution.Status.State)
                 THEN /\ pc' = "fetch"
                      /\ status' = r.ok.QueryExecution.Status.State
                      /\ UNCHANGED <<tool, arg, query_id, toolResults>>
                 ELSE Finish(RUN, arg, query_id, r.ok.QueryExecution.Status.State, r.fault,
                             Returned(RunFailedText(r.ok.QueryExecution.Status.State,
                                                    r.ok.QueryExecution.Status, query_id)))
    /\ pollsAfter' = IF abandoned /\ pollsAfter < MaxPollsAfter
                     THEN pollsAfter + 1 ELSE pollsAfter
    /\ UNCHANGED <<logging, abandoned>>
    /\ UNCHANGED <<AWS_REGION, exec, resultSet, catalog>>
    /\ UNCHANGED <<streamVars, turnVars, uiVars>>

\* The fetch and the return for SUCCEEDED: lines 111-131.  The service draws
\* the execution's result set when it first serves it.
RunFetch ==
    /\ pc = "fetch"
    /\ \E n \in 0..MaxRows :
         /\ resultSet' = [resultSet EXCEPT ![ExecIndex(query_id, Len(exec))] =
                              <<n, 1 + (n % MaxCols)>>]
         /\ \E r \in GetQueryResultsResponses(<<n, 1 + (n % MaxCols)>>) :
              Finish(RUN, arg, query_id, status, r.fault, RunSucceeded(r, query_id))
    /\ requests' = Record(requests, Req("fetch", query_id, ""))
    /\ UNCHANGED <<logging, abandoned, pollsAfter>>
    /\ UNCHANGED <<AWS_REGION, exec, catalog>>
    /\ UNCHANGED <<streamVars, turnVars, uiVars>>

\* The remote service runs an execution: QUEUED, RUNNING, then a terminal
\* state, after which its Status and result set no longer change.
RemoteAdvance ==
    /\ \E i \in 1..Len(exec) :
         /\ exec[i].State \in {"QUEUED", "RUNNING"}
         /\ \E s \in (IF exec[i].State = "QUEUED" THEN {StatusRunning} ELSE {})
                     \cup TerminalStatuses :
              exec' = [exec EXCEPT ![i] = s]
    /\ UNCHANGED <<AWS_REGION, resultSet, catalog, pc, tool, arg, query_id, status, toolResults>>
    /\ UNCHANGED callVars
    /\ UNCHANGED <<streamVars, turnVars, uiVars>>

\* The caller abandons the turn while the tool waits for the execution (the
\* user interrupts: lines 171-173).  Nothing is passed to run_athena_query.
CallerAbandons ==
    /\ pc = "poll"
    /\ ~abandoned
    /\ abandoned' = TRUE
    /\ UNCHANGED <<logging, requests, pollsAfter>>
    /\ UNCHANGED toolVars
    /\ UNCHANGED <<streamVars, turnVars, uiVars>>

\* The catalog changes the table's columns.
CatalogChange ==
    /\ \E c \in Catalogs \ {catalog} : catalog' = c
    /\ UNCHANGED <<AWS_REGION, exec, resultSet, pc, tool, arg, query_id, status, toolResults>>
    /\ UNCHANGED callVars
    /\ UNCHANGED <<streamVars, turnVars, uiVars>>

(* ------------------------- event stream reducers ----------------------- *)
\* Largest number of content items of one message.
MaxItems == 2
\* Largest number of events of one stream.
MaxEvents == 2

\* A Python string is the sequence of its characters; a value whose type the
\* code depends on carries its type.
Str(s) == [t |-> "str", v |-> s]
Dict(d) == [t |-> "dict", v |-> d]
PyNone == [t |-> "NoneType"]
FChars(s) == [chars |-> s]

Whitespace == {" ", "\n", "\t"}
RECURSIVE LStrip(_)
LStrip(s) == IF s # <<>> /\ Head(s) \in Whitespace THEN LStrip(Tail(s)) ELSE s
RECURSIVE RStrip(_)
RStrip(s) == IF s # <<>> /\ s[Len(s)] \in Whitespace THEN RStrip(SubSeq(s, 1, Len(s) - 1)) ELSE s
\* str.strip()
Strip(s) == RStrip(LStrip(s))

RECURSIVE JoinStr(_)
\* "".join(parts)
JoinStr(parts) == IF parts = <<>> THEN <<>> ELSE Head(parts) \o JoinStr(Tail(parts))

\* The content items the reasoning engine emits: answer text, reasoning text,
\* tool call, tool result, of the expected shapes and of unexpected ones,
\* and an item of a kind the reducers do not know.
TextItems == {[text |-> Str(<<"a">>)], [text |-> Str(<<"b", " ">>)]}
BlankTextItems == {[text |-> Str(<<" ">>)], [text |-> Str(<<"\n">>)]}
ReasoningItem == [reasoningContent |-> [reasoningText |-> [text |-> <<"r">>]]]
ToolUseItem == [toolUse |-> [name |-> "run_athena_query", input |-> "sql"]]
ToolResultItem == [toolResult |-> [content |-> <<[text |-> <<"t">>]>>, status |-> "success"]]
WellFormedItems == TextItems \cup BlankTextItems \cup {ReasoningItem, ToolUseItem, ToolResultItem}
UnknownItems == {[cachePoint |-> "default"]}
MalformedItems ==
    {[text |-> PyNone],
     [reasoningContent |-> [redactedContent |-> "x"]],
     [toolUse |-> [name |-> "run_athena_query"]],
     [toolResult |-> [content |-> <<>>, status |-> "error"]],
     [toolResult |-> EmptyDict]}
Items == WellFormedItems \cup UnknownItems \cup MalformedItems

RECURSIVE SeqsUpTo(_, _)
\* The sequences of at most n elements of S.
SeqsUpTo(S, n) ==
    IF n = 0 THEN {<<>>}
    ELSE SeqsUpTo(S, n - 1) \cup {Append(q, x) : q \in SeqsUpTo(S, n - 1), x \in S}

\* The events: most carry no message; a message carries a list of items.
Events ==
    {[data |-> "x"], [message |-> Str(<<"x">>)], [message |-> Dict(EmptyDict)]}
    \cup {[message |-> Dict([role |-> "assistant", content |-> c])] : c \in SeqsUpTo(Items, MaxItems)}

\* The items of an event the reducers loop over: lines 143-144 and 227-228.
EventItems(event) ==
    IF Has(event, "message") /\ event.message.t = "dict"
    THEN IF Has(event.message.v, "content") THEN event.message.v.content ELSE <<>>
    ELSE <<>>

\* query_agent, the loop body for one item: lines 229-230.  acc.parts is
\* response_parts, acc.exc the exception raised, "" when none.  The first
\* definition is the body without .strip() in its test.
QueryAgentItemKeepsBlank(acc, item) ==
    IF Has(item, "text")
    THEN IF item.text.t # "str" THEN [acc EXCEPT !.exc = "AttributeError"]
         ELSE IF item.text.v # <<>>
              THEN [acc EXCEPT !.parts = Append(acc.parts, item.text.v)]
              ELSE acc
    ELSE acc
QueryAgentItem(acc, item) ==
    IF Has(item, "text")
    THEN IF item.text.t # "str" THEN [acc EXCEPT !.exc = "AttributeError"]
         ELSE IF Strip(item.text.v) # <<>>
              THEN [acc EXCEPT !.parts = Append(acc.parts, item.text.v)]
              ELSE acc
    ELSE acc

RECURSIVE QueryAgentItems(_, _)
\* query_agent, the loop over the items of one event: line 228.
QueryAgentItems(acc, items) ==
    IF items = <<>> \/ acc.exc # "" THEN acc
    ELSE QueryAgentItems(QueryAgentItem(acc, Head(items)), Tail(items))

\* process_agent_stream, the loop body for one item: lines 145-156.  acc.out
\* is what has been printed.
ProcessItem(acc, item, show) ==
    IF Has(item, "reasoningContent") /\ show
    THEN IF \/ ~Has(item.reasoningContent, "reasoningText")
            \/ ~Has(item.reasoningContent.reasoningText, "text")
         THEN [acc EXCEPT !.exc = "KeyError"]
         ELSE [acc EXCEPT !.out = Append(acc.out,
                   <<T("Reasoning:"), FChars(item.reasoningContent.reasoningText.text)>>)]
    ELSE IF Has(item, "text") /\ item.text.t # "str"
    THEN [acc EXCEPT !.exc = "AttributeError"]
    ELSE IF Has(item, "text") /\ Strip(item.text.v) # <<>>
    THEN [acc EXCEPT !.out = Append(acc.out, <<T("Response:"), FChars(item.text.v)>>)]
    ELSE IF Has(item, "toolUse")
    THEN IF ~Has(item.toolUse, "name") \/ ~Has(item.toolUse, "input")
         THEN [acc EXCEPT !.exc = "KeyError"]
         ELSE [acc EXCEPT !.out = Append(acc.out,
                   <<T("Tool: "), FStr(item.toolUse.name),
                     T("Parameters:"), FStr(item.toolUse.input)>>)]
    ELSE IF Has(item, "toolResult")
    THEN IF Has(item.toolResult, "content") /\ item.toolResult.content = <<>>
         THEN [acc EXCEPT !.exc = "IndexError"]
         ELSE [acc EXCEPT !.out = Append(acc.out,
                   <<T("Result ("),
                     FStr(IF Has(item.toolResult, "status")
                          THEN item.toolResult.status ELSE "unknown"),
                     T("):"),
                     FChars(IF /\ Has(item.toolResult, "content")
                               /\ Has(item.toolResult.content[1], "text")
                            THEN item.toolResult.content[1].text ELSE <<>>)>>)]
    ELSE acc

RECURSIVE ProcessItems(_, _, _)
\* process_agent_stream, the loop over the items of one event: line 144.
ProcessItems(acc, items, show) ==
    IF items = <<>> \/ acc.exc # "" THEN acc
    ELSE ProcessItems(ProcessItem(acc, Head(items), show), Tail(items), show)

QUERY_AGENT == "query_agent"
PROCESS_STREAM == "process_agent_stream"

\* The reducer is called and starts the stream: lines 142 and 224-226.
StreamStart ==
    /\ spc = "idle"
    /\ \E rd \in {QUERY_AGENT, PROCESS_STREAM}, show \in BOOLEAN :
         /\ rd = QUERY_AGENT => show = FALSE
         /\ reducer' = rd
         /\ show_reasoning' = show
    /\ spc' = "streaming"
    /\ UNCHANGED <<consumed, response_parts, printed, sret, sexc>>
    /\ UNCHANGED <<toolVars, callVars, turnVars, uiVars>>

\* query_agent consumes the next event of the stream: lines 226-230.
QueryAgentEvent ==
    /\ spc = "streaming"
    /\ reducer = QUERY_AGENT
    /\ Len(consumed) < MaxEvents
    /\ \E event \in Events :
         LET acc == QueryAgentItems([parts |-> response_parts, exc |-> ""], EventItems(event))
         IN  /\ consumed' = Append(consumed, event)
             /\ response_parts' = acc.parts
             /\ sexc' = acc.exc
             /\ spc' = IF acc.exc = "" THEN "streaming" ELSE "raised"
    /\ UNCHANGED <<reducer, show_reasoning, printed, sret>>
    /\ UNCHANGED <<toolVars, callVars, turnVars, uiVars>>

\* The stream ends and query_agent returns: line 232.
QueryAgentReturn ==
    /\ spc = "streaming"
    /\ reducer = QUERY_AGENT
    /\ sret' = JoinStr(response_parts)
    /\ spc' = "returned"
    /\ UNCHANGED <<reducer, show_reasoning, consumed, response_parts, printed, sexc>>
    /\ UNCHANGED <<toolVars, callVars, turnVars, uiVars>>

\* process_agent_stream consumes the next event of the stream: lines 142-156.
ProcessStreamEvent ==
    /\ spc = "streaming"
    /\ reducer = PROCESS_STREAM
    /\ Len(consumed) < MaxEvents
    /\ \E event \in Events :
         LET acc == ProcessItems([out |-> printed, exc |-> ""], EventItems(event), show_reasoning)
         IN  /\ consumed' = Append(consumed, event)
             /\ printed' = acc.out
             /\ sexc' = acc.exc
             /\ spc' = IF acc.exc = "" THEN "streaming" ELSE "raised"
    /\ UNCHANGED <<reducer, show_reasoning, response_parts, sret>>
    /\ UNCHANGED <<toolVars, callVars, turnVars, uiVars>>

\* The stream ends and process_agent_stream returns None.
ProcessStreamReturn ==
    /\ spc = "streaming"
    /\ reducer = PROCESS_STREAM
    /\ spc' = "returned"
    /\ UNCHANGED <<reducer, show_reasoning, consumed, response_parts, printed, sret, sexc>>
    /\ UNCHANGED <<toolVars, callVars, turnVars, uiVars>>

(* ------------------------------ entry points --------------------------- *)
\* Largest number of turns of one interactive session.
MaxTurns == 1

\* What agent.stream_async raises when the invocation of the reasoning engine
\* or its event stream fails.
EngineErrors == {"ModelThrottledException"}
KEYBOARD_INTERRUPT == "KeyboardInterrupt"
\* Python's class hierarchy: KeyboardInterrupt is a BaseException that
\* `except Exception` does not catch.
IsException(e) == e # KEYBOARD_INTERRUPT

GET_AGENT_RESPONSE == "get_agent_response"
MAIN == "main"
INTERACTIVE_MODE == "interactive_mode"

Goodbye == <<T("Goodbye!")>>
\* f"Error: {str(e)}": line 44 of the chat UI.
ErrorText(e) == <<T("Error: "), FStr(e)>>

\* How the reducer ended: what it returned, or the exception that left it.
StreamOutcome ==
    IF spc = "returned"
    THEN Returned(IF reducer = QUERY_AGENT THEN <<FChars(sret)>> ELSE JoinStr(printed))
    ELSE Raised(sexc)

\* get_agent_response, given how query_agent ended: lines 40-44 of the chat
\* UI.  The first definition is the function without its try.
get_agent_response_NoTry(out) == out
get_agent_response(out) ==
    IF out.returned THEN Returned(out.text)
    ELSE IF IsException(out.exc) THEN Returned(ErrorText(out.exc))
    ELSE Raised(out.exc)

\* main with a query on the command line, given how query_agent ended:
\* lines 241-242.  No handler surrounds the call.
main_one_shot(out) == out

\* One iteration of interactive_mode's loop, given how process_agent_stream
\* ended: lines 163-173.  Only KeyboardInterrupt is handled.
interactive_turn(out) ==
    IF out.returned THEN Returned(out.text)
    ELSE IF out.exc = KEYBOARD_INTERRUPT THEN Returned(Goodbye)
    ELSE Raised(out.exc)

\* A reducer is called on a new stream.
CallReducer(rd) ==
    /\ reducer' = rd
    /\ show_reasoning' = FALSE
    /\ consumed' = <<>>
    /\ response_parts' = <<>>
    /\ printed' = <<>>
    /\ spc' = "streaming"
    /\ sret' = <<>>
    /\ sexc' = ""

\* The entry point ends the turn with outcome out.
EndTurn(out, next) ==
    /\ epc' = IF out.returned THEN next ELSE "crashed"
    /\ answer' = out.text
    /\ uncaught' = out.exc

\* agent.stream_async raises: the invocation fails before any event, or the
\* stream fails after some events; in the terminal the user may also press
\* Ctrl-C.  Neither reducer has a handler: lines 142 and 226.
StreamFails ==
    /\ spc = "streaming"
    /\ \E e \in EngineErrors \cup (IF entry = INTERACTIVE_MODE THEN {KEYBOARD_INTERRUPT} ELSE {}) :
         sexc' = e
    /\ spc' = "raised"
    /\ UNCHANGED <<reducer, show_reasoning, consumed, response_parts, printed, sret>>
    /\ UNCHANGED <<toolVars, callVars, turnVars, uiVars>>

\* The chat UI calls get_agent_response: line 41 of the chat UI.
GetAgentResponseCall ==
    /\ epc = "idle"
    /\ entry' = GET_AGENT_RESPONSE
    /\ epc' = "turn"
    /\ turns' = turns + 1
    /\ CallReducer(QUERY_AGENT)
    /\ UNCHANGED <<answer, uncaught>>
    /\ UNCHANGED <<toolVars, callVars, uiVars>>

\* get_agent_response returns: lines 42-44 of the chat UI.
GetAgentResponseReturn ==
    /\ entry = GET_AGENT_RESPONSE
    /\ epc = "turn"
    /\ spc \in {"returned", "raised"}
    /\ EndTurn(get_agent_response(StreamOutcome), "done")
    /\ UNCHANGED <<entry, turns>>
    /\ UNCHANGED <<toolVars, streamVars, callVars, uiVars>>

\* main with a query on the command line calls query_agent: lines 238-241.
MainCall ==
    /\ epc = "idle"
    /\ entry' = MAIN
    /\ epc' = "turn"
    /\ turns' = turns + 1
    /\ CallReducer(QUERY_AGENT)
    /\ UNCHANGED <<answer, uncaught>>
    /\ UNCHANGED <<toolVars, callVars, uiVars>>

\* main prints the response: line 242.
MainReturn ==
    /\ entry = MAIN
    /\ epc = "turn"
    /\ spc \in {"returned", "raised"}
    /\ EndTurn(main_one_shot(StreamOutcome), "done")
    /\ UNCHANGED <<entry, turns>>
    /\ UNCHANGED <<toolVars, streamVars, callVars, uiVars>>

\* main without a query calls interactive_mode: lines 244 and 160.
InteractiveCall ==
    /\ epc = "idle"
    /\ entry' = INTERACTIVE_MODE
    /\ epc' = "prompt"
    /\ UNCHANGED <<turns, answer, uncaught>>
    /\ UNCHANGED <<toolVars, streamVars, callVars, uiVars>>

\* What the user types at the prompt, stripped; Ctrl-C raises
\* KeyboardInterrupt in input().
Inputs == {"exit", "", "Show me S3 activity today", KEYBOARD_INTERRUPT}

\* interactive_mode reads a line: lines 164-169 and 171-173.
InteractiveInput ==
    /\ entry = INTERACTIVE_MODE
    /\ epc = "prompt"
    /\ \E query \in Inputs :
         IF query = KEYBOARD_INTERRUPT \/ query \in {"exit", "quit", "/quit", "bye"}
         THEN /\ epc' = "exited"
              /\ answer' = Goodbye
              /\ UNCHANGED <<turns, streamVars>>
         ELSE IF query # ""
         THEN /\ turns < MaxTurns
              /\ epc' = "turn"
              /\ turns' = turns + 1
              /\ CallReducer(PROCESS_STREAM)
              /\ UNCHANGED answer
         ELSE UNCHANGED <<epc, turns, answer, streamVars>>
    /\ UNCHANGED <<entry, uncaught>>
    /\ UNCHANGED <<toolVars, callVars, uiVars>>

\* process_agent_stream ends and the loop goes on, or the exception leaves
\* the try: lines 169-173.
InteractiveTurnEnd ==
    /\ entry = INTERACTIVE_MODE
    /\ epc = "turn"
    /\ spc \in {"returned", "raised"}
    /\ EndTurn(interactive_turn(StreamOutcome),
               IF spc = "raised" THEN "exited" ELSE "prompt")
    /\ UNCHANGED <<entry, turns>>
    /\ UNCHANGED <<toolVars, streamVars, callVars, uiVars>>

(* ------------------------------- chat UI -------------------------------- *)
\* The browser sessions of the chat UI; each runs the script in its own
\* thread of the one server process.
Sessions == {1, 2}
None == [t |-> "NoneType"]
NoTrigger == [kind |-> "none"]

\* datetime.now().strftime("%H:%M:%S"): no handler reads the timestamp.
Now == "12:00:00"

\* add_message: lines 46-52.
Message(role, content) == [role |-> role, content |-> content, timestamp |-> Now]
add_message(log, role, content) == Append(log, Message(role, content))

\* seq[-n:] and seq[:-1]
LastN(seq, n) == SubSeq(seq, IF Len(seq) > n THEN Len(seq) - n + 1 ELSE 1, Len(seq))
AllButLast(seq) == SubSeq(seq, 1, Len(seq) - 1)

\* The number of messages the context is built from: line 162.
ContextWindow == 6
\* The number of context lines above which there is a previous conversation: line 169.
ContextThreshold == 2

\* st.session_state.messages[-6:]: line 162.  The first definition takes one
\* message more.
WindowOfSeven(log) == LastN(log, ContextWindow + 1)
Window(log) == LastN(log, ContextWindow)

RECURSIVE ContextMessages(_)
\* The loop that renders the messages: lines 161-166.
ContextMessages(msgs) ==
    IF msgs = <<>> THEN <<>>
    ELSE (IF Head(msgs).role = "user"
          THEN <<(<<T("User: ")>> \o Head(msgs).content)>>
          ELSE IF Head(msgs).role = "assistant"
          THEN <<(<<T("Assistant: ")>> \o Head(msgs).content)>>
          ELSE <<>>)
         \o ContextMessages(Tail(msgs))

\* len(context_messages) > 2: line 169.  The first definition takes two
\* lines for a previous conversation.
HasContextFromTwo(context_messages) == Len(context_messages) > ContextThreshold - 1
HasContext(context_messages) == Len(context_messages) > ContextThreshold

\* The query sent to the agent: lines 160-173.
BuildPrompt(log, prompt) ==
    LET context_messages == ContextMessages(Window(log))
    IN  IF HasContext(context_messages)
        THEN <<T("Previous conversation context:\n")>>
             \o Join(AllButLast(context_messages), <<T("\n")>>)
             \o <<T("\n\nCurrent question: ")>>
             \o prompt
        ELSE prompt

\* Largest number of messages of a log given to the context builder.
MaxLog == 7
\* What users type and what the assistant answers.
Prompts == {<<FStr("Show me S3 activity today")>>, <<FStr("Who deleted the bucket?")>>}
Answers == {<<FChars(<<"a">>)>>, ErrorText("ModelThrottledException")}
\* The logs the chat input handler can hold at line 160: an assistant
\* message follows a user message, and the last message is the prompt.
ChatMessages == {Message("user", p) : p \in Prompts} \cup {Message("assistant", a) : a \in Answers}
PromptLogs ==
    {log \in SeqsUpTo(ChatMessages, MaxLog) :
        /\ log # <<>>
        /\ log[Len(log)].role = "user"
        /\ \A i \in 1..Len(log) :
              log[i].role = "assistant" => i > 1 /\ log[i - 1].role = "user"}

\* The context builder of the chat input handler on a log whose last message
\* is the prompt just appended: lines 160-173.
BuildContext ==
    /\ \E s \in Sessions :
         /\ rpc[s] = "context"
         /\ full_query' = BuildPrompt(messages[s], trigger[s].prompt)
         /\ rpc' = [rpc EXCEPT ![s] = "respond"]
    /\ UNCHANGED <<environ, messages, agent, widgets, trigger>>
    /\ UNCHANGED <<toolVars, streamVars, callVars, turnVars>>

\* query_agent on a whole stream: the events it emits and the exception
\* with which it fails after them, "" when it ends: lines 224-232.
RECURSIVE QueryAgentStream(_, _, _)
QueryAgentStream(acc, events, failure) ==
    IF acc.exc # "" THEN Raised(acc.exc)
    ELSE IF events = <<>>
    THEN (IF failure # "" THEN Raised(failure) ELSE Returned(<<FChars(JoinStr(acc.parts))>>))
    ELSE QueryAgentStream(QueryAgentItems(acc, EventItems(Head(events))), Tail(events), failure)
query_agent(events, failure) == QueryAgentStream([parts |-> <<>>, exc |-> ""], events, failure)

\* The streams of the chat UI's turns: an answer, an answer with a blank
\* part, a malformed item; each may fail.
ChatStreams ==
    {<<[message |-> Dict([role |-> "assistant", content |-> <<[text |-> Str(<<"a">>)]>>])]>>,
     <<[data |-> "x"], [message |-> Dict([role |-> "assistant", content |-> <<[text |-> PyNone]>>])]>>}
ChatOutcomes == {query_agent(ev, f) : ev \in ChatStreams, f \in {""} \cup EngineErrors}

\* str(int) and int(str), a string being the sequence of its characters.
Digits == <<"0", "1", "2", "3", "4", "5", "6", "7", "8", "9">>
RECURSIVE IntStr(_)
IntStr(n) == IF n < 10 THEN <<Digits[n + 1]>> ELSE Append(IntStr(n \div 10), Digits[(n % 10) + 1])
DigitValue(c) == CHOOSE d \in 0..9 : Digits[d + 1] = c
RECURSIVE ParseInt(_)
ParseInt(str) ==
    IF Len(str) = 1 THEN DigitValue(str[1])
    ELSE 10 * ParseInt(AllButLast(str)) + DigitValue(str[Len(str)])
\* str(float) and float(str) for the slider's values, held in tenths.
FloatStr(t) == IntStr(t \div 10) \o <<".">> \o IntStr(t % 10)
ParseFloat(str) == 10 * ParseInt(SubSeq(str, 1, Len(str) - 2)) + DigitValue(str[Len(str)])

\* os.getenv(key, default)
Getenv(env, key, default) == IF Has(env, key) THEN env[key] ELSE default
DefaultModelId == "anthropic.claude-3-sonnet-20240229-v1:0"
DefaultMaxTokens == <<"4", "0", "0", "0">>
DefaultTemperature == <<"1", ".", "0">>

\* create_agent: lines 177-185.  The model id, token budget and temperature
\* of the agent are read from the process environment.
create_agent(env) ==
    [model_id |-> Getenv(env, "STRANDS_MODEL_ID", DefaultModelId),
     max_tokens |-> ParseInt(Getenv(env, "STRANDS_MAX_TOKENS", DefaultMaxTokens)),
     temperature |-> ParseFloat(Getenv(env, "STRANDS_TEMPERATURE", DefaultTemperature))]

\* initialize_agent: lines 32-36 of the chat UI.  The first definition
\* creates an agent on every run.
initialize_agent_Always(current, env) == create_agent(env)
initialize_agent(current, env) == IF current = None THEN create_agent(env) ELSE current

\* The sidebar widgets as first rendered: lines 65-86 of the chat UI.
WidgetDefaults(env) ==
    [model_id |-> Getenv(env, "STRANDS_MODEL_ID", DefaultModelId),
     max_tokens |-> ParseInt(Getenv(env, "STRANDS_MAX_TOKENS", DefaultMaxTokens)),
     temperature |-> ParseFloat(Getenv(env, "STRANDS_TEMPERATURE", DefaultTemperature))]
\* The environment after the sidebar has written it: lines 89-91.
SidebarEnviron(w) ==
    [STRANDS_MODEL_ID |-> w.model_id,
     STRANDS_MAX_TOKENS |-> IntStr(w.max_tokens),
     STRANDS_TEMPERATURE |-> FloatStr(w.temperature)]

\* The values a user sets in the sidebar.
ModelIds == {DefaultModelId, "amazon.nova-pro-v1:0"}
MaxTokenValues == {4000, 100}
TemperatureValues == {10, 3}
\* The buttons of the sidebar: lines 96-103.
ExampleQueries == {<<FStr("Show me S3 activity today")>>, <<FStr("Find failed events in the last hour")>>}
\* Largest number of messages of a session's log.
MaxChat == 4

\* clear_chat, the new log: line 56.  The first definition keeps the log.
clear_chat_KeepsLog(log) == log
clear_chat(log) == <<>>

\* The user opens the page in a new browser session: the script runs.
UserOpens(s) ==
    /\ rpc[s] = "closed"
    /\ rpc' = [rpc EXCEPT ![s] = "sidebar"]
    /\ UNCHANGED <<environ, messages, agent, widgets, trigger, full_query>>
    /\ UNCHANGED <<toolVars, streamVars, callVars, turnVars>>

\* The user changes a widget of the sidebar: the script reruns.
UserSetsWidget(s) ==
    /\ rpc[s] = "wait"
    /\ \E w \in ([model_id : ModelIds, max_tokens : {widgets[s].max_tokens},
                    temperature : {widgets[s].temperature}]
                  \cup [model_id : {widgets[s].model_id}, max_tokens : MaxTokenValues,
                        temperature : {widgets[s].temperature}]
                  \cup [model_id : {widgets[s].model_id}, max_tokens : {widgets[s].max_tokens},
                        temperature : TemperatureValues]) \ {widgets[s]} :
         widgets' = [widgets EXCEPT ![s] = w]
    /\ rpc' = [rpc EXCEPT ![s] = "sidebar"]
    /\ UNCHANGED <<environ, messages, agent, trigger, full_query>>
    /\ UNCHANGED <<toolVars, streamVars, callVars, turnVars>>

\* The user clicks a Quick Examples button: line 106.
UserClicksExample(s) ==
    /\ rpc[s] = "wait"
    /\ Len(messages[s]) < MaxChat
    /\ \E query \in ExampleQueries : trigger' = [trigger EXCEPT ![s] = [kind |-> "example", query |-> query]]
    /\ rpc' = [rpc EXCEPT ![s] = "sidebar"]
    /\ UNCHANGED <<environ, messages, agent, widgets, full_query>>
    /\ UNCHANGED <<toolVars, streamVars, callVars, turnVars>>

\* The user clicks Clear Chat: line 112.
UserClicksClear(s) ==
    /\ rpc[s] = "wait"
    /\ trigger' = [trigger EXCEPT ![s] = [kind |-> "clear"]]
    /\ rpc' = [rpc EXCEPT ![s] = "sidebar"]
    /\ UNCHANGED <<environ, messages, agent, widgets, full_query>>
    /\ UNCHANGED <<toolVars, streamVars, callVars, turnVars>>

\* The user submits the chat input: line 148.
UserTypes(s) ==
    /\ rpc[s] = "wait"
    /\ Len(messages[s]) + 2 <= MaxChat
    /\ \E prompt \in Prompts : trigger' = [trigger EXCEPT ![s] = [kind |-> "chat", prompt |-> prompt]]
    /\ rpc' = [rpc EXCEPT ![s] = "sidebar"]
    /\ UNCHANGED <<environ, messages, agent, widgets, full_query>>
    /\ UNCHANGED <<toolVars, streamVars, callVars, turnVars>>

\* The script from its top to the end of the sidebar: lines 26-113 of the
\* chat UI.  The widgets take their values, the environment is written, and a
\* clicked button is handled; st.rerun() starts the script again.
RunSidebar(s) ==
    /\ rpc[s] = "sidebar"
    /\ LET w == IF widgets[s] = EmptyDict THEN WidgetDefaults(environ) ELSE widgets[s]
       IN  /\ widgets' = [widgets EXCEPT ![s] = w]
           /\ environ' = SidebarEnviron(w)
    /\ IF trigger[s].kind = "example"
       THEN /\ messages' = [messages EXCEPT ![s] = add_message(messages[s], "user", trigger[s].query)]
            /\ trigger' = [trigger EXCEPT ![s] = NoTrigger]
            /\ UNCHANGED rpc
       ELSE IF trigger[s].kind = "clear"
       THEN /\ messages' = [messages EXCEPT ![s] = clear_chat(messages[s])]
            /\ trigger' = [trigger EXCEPT ![s] = NoTrigger]
            /\ UNCHANGED rpc
       ELSE /\ rpc' = [rpc EXCEPT ![s] = "main"]
            /\ UNCHANGED <<messages, trigger>>
    /\ UNCHANGED <<agent, full_query>>
    /\ UNCHANGED <<toolVars, streamVars, callVars, turnVars>>

\* The script from the main title to its end: lines 133-183 of the chat UI.
\* initialize_agent, then the chat input handler when a prompt was submitted.
RunMain(s) ==
    /\ rpc[s] = "main"
    /\ agent' = [agent EXCEPT ![s] = initialize_agent(agent[s], environ)]
    /\ IF trigger[s].kind = "chat"
       THEN \E out \in ChatOutcomes :
              LET prompt == trigger[s].prompt
                  log == add_message(messages[s], "user", prompt)
                  response == get_agent_response(out)
              IN  /\ full_query' = BuildPrompt(log, prompt)
                  /\ messages' = [messages EXCEPT ![s] = add_message(log, "assistant", response.text)]
       ELSE UNCHANGED <<messages, full_query>>
    /\ trigger' = [trigger EXCEPT ![s] = NoTrigger]
    /\ rpc' = [rpc EXCEPT ![s] = "wait"]
    /\ UNCHANGED <<environ, widgets>>
    /\ UNCHANGED <<toolVars, streamVars, callVars, turnVars>>

vars == <<toolVars, streamVars, callVars, turnVars, uiVars>>

TurnIdle ==
    /\ entry = ""
    /\ epc = "idle"
    /\ turns = 0
    /\ answer = <<>>
    /\ uncaught = ""

\* No session is open and the process has no STRANDS_ variable set.
UiIdle ==
    /\ environ = EmptyDict
    /\ messages = [s \in Sessions |-> <<>>]
    /\ agent = [s \in Sessions |-> None]
    /\ widgets = [s \in Sessions |-> EmptyDict]
    /\ rpc = [s \in Sessions |-> "closed"]
    /\ trigger = [s \in Sessions |-> NoTrigger]
    /\ full_query = <<>>

StreamIdle ==
    /\ reducer = ""
    /\ show_reasoning = FALSE
    /\ consumed = <<>>
    /\ response_parts = <<>>
    /\ printed = <<>>
    /\ spc = "idle"
    /\ sret = <<>>
    /\ sexc = ""

ToolsIdle ==
    /\ exec = <<>>
    /\ resultSet = <<>>
    /\ catalog = Columns
    /\ pc = "idle"
    /\ tool = ""
    /\ arg = ""
    /\ query_id = ""
    /\ status = ""
    /\ toolResults = <<>>
    /\ requests = <<>>
    /\ abandoned = FALSE
    /\ pollsAfter = 0

\* The tools against the remote services, with and without a configured region.
Init ==
    /\ AWS_REGION \in {"us-east-1", ""}
    /\ ToolsIdle
    /\ logging = FALSE
    /\ StreamIdle
    /\ TurnIdle
    /\ UiIdle

InitStream ==
    /\ AWS_REGION = "us-east-1"
    /\ ToolsIdle
    /\ logging = FALSE
    /\ StreamIdle
    /\ TurnIdle
    /\ UiIdle

Next ==
    \/ GetTableSchema
    \/ GetQueryDetails
    \/ RunSubmit
    \/ RunPoll
    \/ RunFetch
    \/ RemoteAdvance

Spec == Init /\ [][Next]_vars

\* The reducers on a stream of events.
NextStream ==
    \/ StreamStart
    \/ QueryAgentEvent
    \/ QueryAgentReturn
    \/ ProcessStreamEvent
    \/ ProcessStreamReturn

SpecStream == InitStream /\ [][NextStream]_vars

\* run_athena_query against the remote query service, its requests recorded,
\* under a caller that may abandon the turn.
InitRun ==
    /\ AWS_REGION = "us-east-1"
    /\ ToolsIdle
    /\ logging = TRUE
    /\ StreamIdle
    /\ TurnIdle
    /\ UiIdle

NextRun ==
    \/ RunSubmit
    \/ RunPoll
    \/ RunFetch
    \/ RemoteAdvance
    \/ CallerAbandons

SpecRun == InitRun /\ [][NextRun]_vars

\* get_table_schema against a catalog whose table changes.
NextSchema ==
    \/ GetTableSchema
    \/ CatalogChange

SpecSchema == Init /\ [][NextSchema]_vars

\* The entry points that run a turn, each on a stream that may fail.
NextTurn ==
    \/ GetAgentResponseCall
    \/ GetAgentResponseReturn
    \/ MainCall
    \/ MainReturn
    \/ InteractiveCall
    \/ InteractiveInput
    \/ InteractiveTurnEnd
    \/ QueryAgentEvent
    \/ QueryAgentReturn
    \/ ProcessStreamEvent
    \/ ProcessStreamReturn
    \/ StreamFails

SpecTurn == InitStream /\ [][NextTurn]_vars

\* The context builder on every log of at most MaxLog messages.
InitPrompt ==
    /\ AWS_REGION = "us-east-1"
    /\ ToolsIdle
    /\ logging = FALSE
    /\ StreamIdle
    /\ TurnIdle
    /\ environ = EmptyDict
    /\ \E log \in PromptLogs :
         /\ messages = [s \in Sessions |-> IF s = 1 THEN log ELSE <<>>]
         /\ trigger = [s \in Sessions |->
                          IF s = 1 THEN [kind |-> "chat", prompt |-> log[Len(log)].content]
                          ELSE NoTrigger]
    /\ agent = [s \in Sessions |-> None]
    /\ widgets = [s \in Sessions |-> EmptyDict]
    /\ rpc = [s \in Sessions |-> IF s = 1 THEN "context" ELSE "closed"]
    /\ full_query = <<>>

NextPrompt == BuildContext

SpecPrompt == InitPrompt /\ [][NextPrompt]_vars

\* One session of the chat UI.
NextChat ==
    \/ UserOpens(1)
    \/ UserSetsWidget(1)
    \/ UserClicksExample(1)
    \/ UserClicksClear(1)
    \/ UserTypes(1)
    \/ RunSidebar(1)
    \/ RunMain(1)

SpecChat == InitStream /\ [][NextChat]_vars

\* Two sessions of the chat UI whose users open the page and use the sidebar.
NextSessions ==
    \/ \E s \in Sessions : UserOpens(s)
    \/ \E s \in Sessions : UserSetsWidget(s)
    \/ \E s \in Sessions : RunSidebar(s)
    \/ \E s \in Sessions : RunMain(s)

SpecSessions == InitStream /\ [][NextSessions]_vars

(* ------------------------------------------------------------------------ *)
(* Properties of run_athena_query, get_query_details and get_table_schema   *)
(* (specification Spec).                                                    *)
(* ------------------------------------------------------------------------ *)
\* The finished calls of run_athena_query.
RunCalls == {k \in 1..Len(toolResults) : toolResults[k].tool = RUN}
\* The finished calls of run_athena_query whose last poll saw SUCCEEDED and
\* whose fetch was answered with the execution's result set.
FetchedCalls == {k \in RunCalls : /\ toolResults[k].status = "SUCCEEDED"
                                  /\ toolResults[k].fault = "none"}
\* The remote execution a finished call submitted.
ExecOf(k) == ExecIndex(toolResults[k].query_id, Len(exec))
\* The number of data rows the remote service holds for the call's execution.
RemoteRows(k) == resultSet[ExecOf(k)][1]
RemoteCols(k) == resultSet[ExecOf(k)][2]
\* The lists of rows a text carries.
RowData(text) == {p \in Range(text) : Has(p, "list")}
\* The counts a text carries.
Counts(text) == {p \in Range(text) : Has(p, "int")}

\* C1: when the execution ends SUCCEEDED with r data rows, for 1 <= r <= 50
\* the returned text carries exactly the r data rows (each cell decoded, NULL
\* for an unset cell) and the count r; for r > 50 it carries no row data,
\* only the count r and the execution id.
C1_AdmissionPolicy ==
    \A k \in FetchedCalls :
        LET e == toolResults[k]
            r == RemoteRows(k)
        IN  /\ e.returned
            /\ (r >= 1 /\ r <= 50) =>
                  /\ Counts(e.text) = {FInt(r)}
                  /\ Cardinality(RowData(e.text)) = 1
                  /\ \A p \in RowData(e.text) :
                        /\ Len(p.list) = r
                        /\ \A i \in 1..r :
                              /\ Len(p.list[i]) = RemoteCols(k)
                              /\ \A j \in 1..RemoteCols(k) :
                                    p.list[i][j] = IF Has(Cell(i, j), "VarCharValue")
                                                   THEN Cell(i, j).VarCharValue ELSE "NULL"
            /\ r > 50 =>
                  /\ RowData(e.text) = {}
                  /\ Counts(e.text) = {FInt(r)}
                  /\ Contains(e.text, FStr(e.query_id))

\* Both sides of the boundary have been returned: one call fetched 50 data
\* rows and returned them, another fetched 51 and returned none.
C1_Witness ==
    \E k1, k2 \in FetchedCalls :
        /\ RemoteRows(k1) = 50 /\ RowData(toolResults[k1].text) # {}
        /\ RemoteRows(k2) = 51 /\ RowData(toolResults[k2].text) = {}

\* C2: run_athena_query never raises: whatever fails in the remote service
\* during submit, poll or fetch, the call ends by returning a text.
C2_NeverRaises ==
    \A k \in RunCalls :
        toolResults[k].fault \in {"service", "bad_response"} => toolResults[k].returned

\* C3: a result is returned only after a poll has seen a terminal state: a
\* returned call's last polled state is SUCCEEDED, FAILED or CANCELLED and is
\* the state the service holds; each submitted execution has at most one
\* outcome; while the call is still polling or fetching it has no outcome.
C3_OnlyTerminalOutcome ==
    /\ \A k \in RunCalls :
          toolResults[k].returned =>
              /\ toolResults[k].status \in {"SUCCEEDED", "FAILED", "CANCELLED"}
              /\ exec[ExecOf(k)].State = toolResults[k].status
    /\ \A k1, k2 \in RunCalls :
          (toolResults[k1].query_id # "" /\ toolResults[k1].query_id = toolResults[k2].query_id)
              => k1 = k2
    /\ pc \in {"poll", "fetch"} =>
          /\ \A k \in RunCalls : toolResults[k].query_id # query_id
          /\ (pc = "poll" => status \in {"", "QUEUED", "RUNNING"})

\* A call has returned a failure and a later call is polling an execution
\* that is still running.
C3_Witness ==
    /\ \E k \in RunCalls : toolResults[k].returned /\ toolResults[k].status = "CANCELLED"
    /\ pc = "poll"
    /\ status = "RUNNING"

\* C4: for FAILED and CANCELLED the returned text contains the execution id
\* assigned at submission and the terminal state, contains the state-change
\* reason when the service supplied one, and never contains row data.
C4_FailureText ==
    \A k \in RunCalls :
        LET e == toolResults[k] IN
        (e.returned /\ e.status \in {"FAILED", "CANCELLED"}) =>
            /\ ExecOf(k) # 0
            /\ exec[ExecOf(k)].State = e.status
            /\ Contains(e.text, FStr(e.query_id))
            /\ Contains(e.text, FStr(e.status))
            /\ Has(exec[ExecOf(k)], "StateChangeReason") =>
                   Contains(e.text, FStr(exec[ExecOf(k)].StateChangeReason))
            /\ RowData(e.text) = {}

\* A call returned for an execution the service failed with a reason.
C4_Witness ==
    \E k \in RunCalls :
        /\ toolResults[k].returned
        /\ toolResults[k].status = "FAILED"
        /\ Has(exec[ExecOf(k)], "StateChangeReason")
        /\ exec[ExecOf(k)].StateChangeReason = "syntax error"

\* C5: when the execution ends SUCCEEDED with 0 data rows the call returns
\* the "no data" text: it carries no count and no row data, and it differs
\* from every text returned for r >= 1 data rows and for FAILED or CANCELLED.
C5_NoData ==
    \A k \in FetchedCalls :
        RemoteRows(k) = 0 =>
            /\ toolResults[k].returned
            /\ toolResults[k].text = <<T("Query successful but no data returned.")>>
            /\ Counts(toolResults[k].text) = {}
            /\ RowData(toolResults[k].text) = {}
            /\ \A k2 \in RunCalls :
                  (/\ toolResults[k2].returned
                   /\ \/ toolResults[k2].status \in {"FAILED", "CANCELLED"}
                      \/ (k2 \in FetchedCalls /\ RemoteRows(k2) >= 1))
                  => toolResults[k2].text # toolResults[k].text

\* A call returned for an empty result set, and another for a failed execution.
C5_Witness ==
    \E k, k2 \in RunCalls :
        /\ k \in FetchedCalls /\ RemoteRows(k) = 0 /\ toolResults[k].returned
        /\ toolResults[k2].returned /\ toolResults[k2].status = "FAILED"

\* C6: once a poll has seen a terminal state (no poll having failed), the
\* call returns.
C6_ReturnsOnceTerminal ==
    \A k \in RunCalls :
        toolResults[k].status \in {"SUCCEEDED", "FAILED", "CANCELLED"} => toolResults[k].returned

\* The calls of get_query_details that follow call k of run_athena_query and
\* ask for the execution it submitted.
LaterDetails(k) ==
    {j \in (k + 1)..Len(toolResults) :
        toolResults[j].tool = DETAILS /\ toolResults[j].arg = toolResults[k].query_id}
\* The finished calls of run_athena_query that returned for an execution the
\* service marked FAILED with a state-change reason.
FailedWithReason ==
    {k \in RunCalls : /\ toolResults[k].returned
                      /\ toolResults[k].status = "FAILED"
                      /\ Has(exec[ExecOf(k)], "StateChangeReason")}
ExplainAgrees(k, j) ==
    /\ toolResults[j].returned
    /\ Contains(toolResults[j].text, FStr(toolResults[k].query_id))
    /\ Contains(toolResults[j].text, FStr("FAILED"))
    /\ Contains(toolResults[j].text, FStr(exec[ExecOf(k)].StateChangeReason))

\* C7, as claimed: if the service marks an execution FAILED with a reason,
\* the text run_athena_query returns contains the id and the reason, and any
\* later get_query_details call with that id returns a text containing the
\* same id, the state FAILED and the same reason.
C7_AnyLaterExplain ==
    \A k \in FailedWithReason :
        /\ Contains(toolResults[k].text, FStr(toolResults[k].query_id))
        /\ Contains(toolResults[k].text, FStr(exec[ExecOf(k)].StateChangeReason))
        /\ \A j \in LaterDetails(k) : ExplainAgrees(k, j)

\* C7, amended: the same, for every later get_query_details call with that
\* id whose status lookup the service answers with the execution's Status.
C7_ExplainAgreesWhenAnswered ==
    \A k \in FailedWithReason :
        /\ Contains(toolResults[k].text, FStr(toolResults[k].query_id))
        /\ Contains(toolResults[k].text, FStr(exec[ExecOf(k)].StateChangeReason))
        /\ \A j \in LaterDetails(k) : toolResults[j].fault = "none" => ExplainAgrees(k, j)

\* run_athena_query returned a failure with a reason and get_query_details
\* was then called with its id and answered.
C7_Witness ==
    \E k \in FailedWithReason :
        \E j \in LaterDetails(k) :
            /\ toolResults[j].fault = "none"
            /\ exec[ExecOf(k)].StateChangeReason = "table not found"

\* The finished calls of get_query_details and get_table_schema during which
\* the remote service failed or answered without the expected fields.
FailedLookups ==
    {k \in 1..Len(toolResults) : /\ toolResults[k].tool \in {DETAILS, SCHEMA}
                                 /\ toolResults[k].fault \in {"service", "bad_response"}}

\* C8: get_query_details and get_table_schema return an error text for every
\* failure of the remote service during the call, a response without the
\* expected fields included; no exception leaves them.
C8_LookupsReturnText ==
    \A k \in FailedLookups :
        /\ toolResults[k].returned
        /\ toolResults[k].exc = ""
        /\ toolResults[k].text # <<>>
        /\ toolResults[k].text[1] = IF toolResults[k].tool = SCHEMA
                                    THEN T("Failed to get table schema: ")
                                    ELSE T("Failed to get query details: ")

\* Both tools have returned an error text: get_table_schema after a response
\* lacking an expected field, get_query_details after a service error.
C8_Witness ==
    \E k1, k2 \in FailedLookups :
        /\ toolResults[k1].tool = SCHEMA /\ toolResults[k1].fault = "bad_response"
        /\ toolResults[k2].tool = DETAILS /\ toolResults[k2].fault = "service"
        /\ toolResults[k2].text = DetailsError("InvalidRequestException")

(* ------------------------------------------------------------------------ *)
(* Properties of the event stream reducers (specification SpecStream).      *)
(* ------------------------------------------------------------------------ *)
RECURSIVE ArrivedItems(_)
\* The content items of the events, in arrival order: event order, then item
\* order within an event.
ArrivedItems(events) ==
    IF events = <<>> THEN <<>>
    ELSE ArrivedItems(SubSeq(events, 1, Len(events) - 1)) \o EventItems(events[Len(events)])

IsAnswerText(item) == Has(item, "text") /\ item.text.t = "str"
IsBlank(item) == \A i \in 1..Len(item.text.v) : item.text.v[i] \in Whitespace
IsVisibleAnswerText(item) == IsAnswerText(item) /\ ~IsBlank(item)

RECURSIVE Concatenation(_)
\* The texts of the items, one after the other.
Concatenation(items) ==
    IF items = <<>> THEN <<>>
    ELSE Concatenation(SubSeq(items, 1, Len(items) - 1)) \o items[Len(items)].text.v

QueryAgentReturned == spc = "returned" /\ reducer = QUERY_AGENT

\* C9, as claimed: the string query_agent returns is the concatenation, in
\* arrival order, of exactly the answer-text items of the stream.
C9_ConcatenatesAnswerText ==
    QueryAgentReturned =>
        sret = Concatenation(SelectSeq(ArrivedItems(consumed), IsAnswerText))

\* C9, amended: the string query_agent returns is the concatenation, in
\* arrival order, of exactly the answer-text items whose text is not empty
\* or whitespace only; every other item contributes nothing.
C9_ConcatenatesVisibleAnswerText ==
    QueryAgentReturned =>
        sret = Concatenation(SelectSeq(ArrivedItems(consumed), IsVisibleAnswerText))

\* query_agent returned after a stream whose last event carries two
\* different answer texts and whose first event was a tool result and a
\* whitespace-only answer text.
C9_Witness ==
    /\ QueryAgentReturned
    /\ Len(consumed) = 2
    /\ EventItems(consumed[1]) = <<ToolResultItem, [text |-> Str(<<" ">>)]>>
    /\ EventItems(consumed[2]) = <<[text |-> Str(<<"b", " ">>)], [text |-> Str(<<"a">>)]>>
    /\ sret = <<"b", " ", "a">>

\* C10: the reducers never abort the stream on a malformed or unexpected
\* event: no exception leaves them while they consume the events.
C10_NeverAborts == spc # "raised" /\ sexc = ""

(* ------------------------------------------------------------------------ *)
(* Properties of the entry points (specification SpecTurn).                 *)
(* ------------------------------------------------------------------------ *)
\* The entry point has ended a turn whose stream failed.
FailedTurnEnded == /\ spc = "raised"
                   /\ sexc \in EngineErrors
                   /\ epc \in {"done", "prompt", "exited", "crashed"}

\* C11: every turn ends with readable text: when the invocation of the
\* reasoning engine or its event stream fails, the entry point running the
\* turn (get_agent_response, main, interactive_mode) ends the turn with a
\* single error string as the answer and no exception leaves it.
C11_FailedTurnEndsWithErrorText ==
    FailedTurnEnded => /\ uncaught = ""
                       /\ epc # "crashed"
                       /\ answer = ErrorText(sexc)

(* ------------------------------------------------------------------------ *)
(* Properties of the context builder (specification SpecPrompt).            *)
(* ------------------------------------------------------------------------ *)
\* The context builder has run on session 1's log.
Built == rpc[1] = "respond"
\* The prompt of the turn: the content of the message just appended.
CurrentPrompt == messages[1][Len(messages[1])].content

\* C12: the query sent to the agent is determined by the log and the current
\* prompt, building it leaves the log as it was, and when the log, the
\* message of the current prompt included, holds fewer than 3 messages the
\* query is the current prompt exactly.
C12_SmallLogKeepsPrompt ==
    /\ [](Built => full_query = BuildPrompt(messages[1], CurrentPrompt))
    /\ [](Built /\ Len(messages[1]) < 3 => full_query = CurrentPrompt)
    /\ [][rpc[1] = "context" => messages' = messages]_vars

C12_Witness == Built /\ Len(messages[1]) = 2 /\ full_query = CurrentPrompt

\* The messages immediately preceding the prompt that the context holds:
\* min(n, 6) - 1 of them, in log order.
Preceding(log) ==
    LET n == Len(log)
        k == (IF n < 6 THEN n ELSE 6) - 1
    IN  [i \in 1..k |-> log[n - k - 1 + i]]
\* '<Role>: <text>'
Rendered(m) == <<T((IF m.role = "user" THEN "User" ELSE "Assistant") \o ": ")>> \o m.content

\* C13: for a log of n >= 3 messages whose last message is the new prompt,
\* the query is the context header, the min(n, 6) - 1 messages immediately
\* preceding the prompt, each rendered '<Role>: <text>', in log order and
\* joined by newlines, then the 'Current question' header and the prompt.
C13_ContextWindow ==
    Built /\ Len(messages[1]) >= 3 =>
        full_query = <<T("Previous conversation context:\n")>>
                     \o Join([i \in DOMAIN Preceding(messages[1]) |->
                                 Rendered(Preceding(messages[1])[i])], <<T("\n")>>)
                     \o <<T("\n\nCurrent question: ")>>
                     \o CurrentPrompt

C13_Witness ==
    /\ Built
    /\ Len(messages[1]) = 7
    /\ Len(Preceding(messages[1])) = 5
    /\ full_query # CurrentPrompt
    /\ messages[1][1].content # messages[1][2].content

(* ------------------------------------------------------------------------ *)
(* Properties of the chat UI (specifications SpecChat and SpecSessions).    *)
(* ------------------------------------------------------------------------ *)
IsPrefix(a, b) == Len(a) <= Len(b) /\ SubSeq(b, 1, Len(a)) = a
\* The step is session s's handling of a click on Clear Chat.
ClearStep(s) == rpc[s] = "sidebar" /\ trigger[s].kind = "clear" /\ trigger'[s] = NoTrigger

\* C14 as claimed: the log is append-only under every UI operation, Clear
\* Chat included: each earlier state of a session's log is a prefix of each
\* later one.
C14_AppendOnly == [][\A s \in Sessions : IsPrefix(messages[s], messages'[s])]_vars

\* C14: the log is append-only under chat input turns and quick-example
\* buttons (each earlier state is a prefix of each later one, so no message
\* is changed or removed), and Clear Chat empties it.
C14_AppendOnlyUntilCleared ==
    [][\A s \in Sessions :
          IF ClearStep(s) THEN messages'[s] = <<>>
          ELSE IsPrefix(messages[s], messages'[s])]_vars

\* The log was cleared after a chat turn, and a message was added since.
C14_Witness ==
    /\ full_query # <<>>
    /\ Len(messages[1]) = 1
    /\ messages[1][1].role = "user"
    /\ rpc[1] = "wait"

\* C19: the log alternates user, assistant, user, assistant, ...: between
\* script runs every user message is followed by the assistant message that
\* answers it, whether it was typed or appended by a quick-example button.
C19_Alternates ==
    \A s \in Sessions :
        rpc[s] = "wait" =>
            \A i \in 1..Len(messages[s]) :
                messages[s][i].role = (IF i % 2 = 1 THEN "user" ELSE "assistant")
            /\ Len(messages[s]) % 2 = 0

\* C20: a session's agent is created at most once: once the session holds an
\* agent, its model id, token budget and temperature never change, whatever
\* the sidebar writes to the environment and across Clear Chat.
C20_AgentCreatedOnce ==
    [][\A s \in Sessions : agent[s] # None => agent'[s] = agent[s]]_vars

\* The session holds an agent, Clear Chat has emptied its log, and the
\* sidebar has since written a configuration that differs from the agent's.
C20_Witness ==
    /\ rpc[1] = "wait"
    /\ agent[1] # None
    /\ create_agent(environ) # agent[1]
    /\ widgets[1] # agent[1]
    /\ full_query # <<>>
    /\ messages[1] = <<>>

\* C15: the configuration with which a session's agent is created is the one
\* of the session's own sidebar: no step of another session alters it.
C15_AgentFromOwnSidebar ==
    [][\A s \in Sessions :
          agent[s] = None /\ agent'[s] # None => agent'[s] = widgets[s]]_vars

(* ------------------------------------------------------------------------ *)
(* Properties of get_table_schema under a changing catalog (SpecSchema).    *)
(* ------------------------------------------------------------------------ *)
\* The step is a get_table_schema call that the catalog answered with the
\* table's columns.
SchemaAnswered ==
    /\ Len(toolResults') = Len(toolResults) + 1
    /\ toolResults'[Len(toolResults')].tool = SCHEMA
    /\ toolResults'[Len(toolResults')].fault = "none"
\* 'name: type' of each column, in catalog order.
NameTypePairs(cat) == [i \in 1..Len(cat) |-> <<FStr(cat[i].Name), T(": "), FStr(cat[i].Type)>>]

\* C16: schema lookup always re-fetches: every get_table_schema call the
\* catalog answers returns 'Available columns: ' followed by the 'name: type'
\* pairs of the columns the catalog holds at the time of that call,
\* comma-joined in catalog order, whatever earlier calls returned.
C16_SchemaRefetched ==
    [][SchemaAnswered =>
          /\ toolResults'[Len(toolResults')].returned
          /\ toolResults'[Len(toolResults')].text =
                 <<T("Available columns: ")>> \o Join(NameTypePairs(catalog), <<T(", ")>>)]_vars

\* Two answered calls between which the catalog changed: the second call
\* returns the new schema.
C16_Witness ==
    /\ Len(toolResults) = 2
    /\ \A k \in 1..2 : /\ toolResults[k].tool = SCHEMA
                        /\ toolResults[k].fault = "none"
                        /\ toolResults[k].returned
    /\ toolResults[1].text = SchemaResult(Columns)
    /\ toolResults[2].text # toolResults[1].text
    /\ toolResults[2].text = SchemaResult(catalog)

(* ------------------------------------------------------------------------ *)
(* Properties of one run_athena_query call (specification SpecRun).         *)
(* ------------------------------------------------------------------------ *)
\* C17: once the caller has abandoned the turn, the poll loop makes at most
\* one further poll and the call stops waiting.
C17_StopsPollingOnceAbandoned == abandoned => pollsAfter <= 1

\* The remote requests of the call recorded so far, by operation.
Submits == {i \in 1..Len(requests) : requests[i].op = "submit"}
Polls == {i \in 1..Len(requests) : requests[i].op = "poll"}
Fetches == {i \in 1..Len(requests) : requests[i].op = "fetch"}

\* C18: the requests of one run_athena_query call: exactly one submit, which
\* is first; every poll carries the id that submit returned; at most one
\* fetch, right after a poll answered SUCCEEDED; and no request after the
\* fetch or after a poll answered FAILED or CANCELLED.
C18_ProtocolOrder ==
    /\ pc \in {"poll", "fetch"} => requests # <<>>
    /\ requests # <<>> => Submits = {1}
    /\ \A i \in Polls : requests[i].id = requests[1].answer /\ requests[i].id # ""
    /\ Cardinality(Fetches) <= 1
    /\ \A i \in Fetches : /\ i = Len(requests)
                           /\ i - 1 \in Polls
                           /\ requests[i - 1].answer = "SUCCEEDED"
    /\ \A i \in Polls : requests[i].answer \in {"FAILED", "CANCELLED"} => i = Len(requests)
    /\ pc \in {"done", "raised"} /\ requests # <<>> =>
           \/ requests[Len(requests)].op = "fetch"
           \/ requests[Len(requests)].answer \in {"", "FAILED", "CANCELLED"}

\* A call that polled a waiting execution, saw SUCCEEDED and fetched.
C18_Witness ==
    /\ pc = "done"
    /\ Len(requests) >= 4
    /\ requests[2].op = "poll" /\ requests[2].answer \in {"QUEUED", "RUNNING"}
    /\ requests[Len(requests)].op = "fetch"

====
